---- MODULE Spec2Model ----
(***************************************************************************)
(* Model of the MIPS-I instruction-set simulator in src/sim (sim.c, sim.h, *)
(* main.c): the virtual memory list, the CPU context and the run loop.     *)
(*                                                                         *)
(* A uint32_t is represented by the integer of -2^31 .. 2^31-1 that is     *)
(* congruent to it modulo 2^32 (its two's-complement reading), so that     *)
(* every intermediate value of the arithmetic below stays inside 32 bits.  *)
(* Hi16/Lo16 give the two unsigned halves of a word, Mk builds a word from *)
(* two halves.  Unsigned comparisons of the C code are ULt/ULe, never the  *)
(* integer order.                                                          *)
(***************************************************************************)
EXTENDS Integers, Sequences, FiniteSets, TLC

(***************************************************************************)
(* 32-bit unsigned arithmetic (uint32_t)                                   *)
(***************************************************************************)
H == 2 ^ 16

Hi16(a) == (a \div H) % H

Lo16(a) == a % H

Mk(hi, lo) == (((hi % H) - (IF (hi % H) >= 32768 THEN H ELSE 0)) * H) + (lo % H)

Add32(a, b) ==
  LET l == Lo16(a) + Lo16(b)
  IN  Mk(Hi16(a) + Hi16(b) + (l \div H), l)

Sub32(a, b) ==
  LET l == Lo16(a) - Lo16(b)
  IN  Mk(Hi16(a) - Hi16(b) + (l \div H), l)

ULt(a, b) ==
  \/ Hi16(a) < Hi16(b)
  \/ (Hi16(a) = Hi16(b) /\ Lo16(a) < Lo16(b))

ULe(a, b) == (a = b) \/ ULt(a, b)

Pow2(n) == 2 ^ n

\* x << n on uint32_t, 0 <= n <= 31
Shl32(a, n) ==
  IF n >= 16
  THEN Mk(Lo16(a) * Pow2(n - 16), 0)
  ELSE LET l == Lo16(a) * Pow2(n)
       IN  Mk((Hi16(a) * Pow2(n)) + (l \div H), l)

\* x >> n on uint32_t (logical), 0 <= n <= 31
Shr32(a, n) ==
  IF n >= 16
  THEN Mk(0, Hi16(a) \div Pow2(n - 16))
  ELSE Mk(Hi16(a) \div Pow2(n),
          (((Hi16(a) % Pow2(n)) * H) + Lo16(a)) \div Pow2(n))

RECURSIVE Bits16(_, _, _, _)
\* bitwise combination of two 16-bit values; op is "and", "or" or "xor"
Bits16(op, x, y, n) ==
  IF n = 0 THEN 0
  ELSE LET bx == x % 2
           by == y % 2
           b  == IF op = "and" THEN (IF bx = 1 /\ by = 1 THEN 1 ELSE 0)
                 ELSE IF op = "or" THEN (IF bx = 1 \/ by = 1 THEN 1 ELSE 0)
                 ELSE (IF bx # by THEN 1 ELSE 0)
       IN  b + (2 * Bits16(op, x \div 2, y \div 2, n - 1))

And32(a, b) == Mk(Bits16("and", Hi16(a), Hi16(b), 16), Bits16("and", Lo16(a), Lo16(b), 16))

Or32(a, b) == Mk(Bits16("or", Hi16(a), Hi16(b), 16), Bits16("or", Lo16(a), Lo16(b), 16))

Xor32(a, b) == Mk(Bits16("xor", Hi16(a), Hi16(b), 16), Bits16("xor", Lo16(a), Lo16(b), 16))

\* low 32 bits of the product of two uint32_t, by 8-bit limbs of b
Mul32(a, b) ==
  LET MulByte(x, k) ==      \* x * k mod 2^32, 0 <= k <= 255
        LET l == Lo16(x) * k
        IN  Mk((Hi16(x) * k) + (l \div H), l)
      b0 == Lo16(b) % 256
      b1 == Lo16(b) \div 256
      b2 == Hi16(b) % 256
      b3 == Hi16(b) \div 256
  IN  Add32(Add32(MulByte(a, b0), Shl32(MulByte(a, b1), 8)),
            Add32(Shl32(MulByte(a, b2), 16), Shl32(MulByte(a, b3), 24)))

\* restoring division of uint32_t a by b # 0, most significant bit first:
\* run[n] is <<quotient, remainder>> after n bits of a have been shifted in
UDivQR(a, b) ==
  LET bitstep[s \in (Int \X Int) \X (0..31)] ==
        LET q == s[1][1]
            r == s[1][2]
            bit == Lo16(Shr32(a, s[2])) % 2
            \* the remainder is below b, so 2r+bit may carry into bit 32
            carry == Hi16(r) >= 32768
            r2 == Add32(Shl32(r, 1), bit)
        IN  IF carry \/ ULe(b, r2)
            THEN <<Add32(Shl32(q, 1), 1), Sub32(r2, b)>>
            ELSE <<Shl32(q, 1), r2>>
      run[n \in 0..32] ==
        IF n = 0 THEN <<0, 0>> ELSE bitstep[<<run[n - 1], 32 - n>>]
  IN  run[32]

UDiv32(a, b) == UDivQR(a, b)[1]

UMod32(a, b) == UDivQR(a, b)[2]

(***************************************************************************)
(* Opcode, function and register tables (sim.h)                            *)
(***************************************************************************)
OP_RTYPE == 0
OP_BGEZ == 1
OP_J == 2
OP_JAL == 3
OP_BEQ == 4
OP_BNE == 5
OP_BLEZ == 6
OP_BGTZ == 7
OP_ADDI == 8
OP_ADDIU == 9
OP_SLTI == 10
OP_SLTIU == 11
OP_ANDI == 12
OP_ORI == 13
OP_XORI == 14
OP_LUI == 15
OP_LB == 32
OP_LW == 35
OP_SB == 40
OP_SW == 43

Opcodes ==
  {OP_RTYPE, OP_BGEZ, OP_J, OP_JAL, OP_BEQ, OP_BNE, OP_BLEZ, OP_BGTZ, OP_ADDI,
   OP_ADDIU, OP_SLTI, OP_SLTIU, OP_ANDI, OP_ORI, OP_XORI, OP_LUI, OP_LB, OP_LW,
   OP_SB, OP_SW}

FUNC_SLL == 0
FUNC_SRL == 2
FUNC_SRA == 3
FUNC_SLLV == 4
FUNC_SRLV == 6
FUNC_JR == 8
FUNC_SYSCALL == 12
FUNC_MFHI == 16
FUNC_MFLO == 18
FUNC_MULT == 24
FUNC_MULTU == 25
FUNC_DIV == 26
FUNC_DIVU == 27
FUNC_ADD == 32
FUNC_ADDU == 33
FUNC_SUB == 34
FUNC_SUBU == 35
FUNC_AND == 36
FUNC_OR == 37
FUNC_XOR == 38
FUNC_SLT == 42
FUNC_SLTU == 43

Functions ==
  {FUNC_SLL, FUNC_SRL, FUNC_SRA, FUNC_SLLV, FUNC_SRLV, FUNC_JR, FUNC_SYSCALL,
   FUNC_MFHI, FUNC_MFLO, FUNC_MULT, FUNC_MULTU, FUNC_DIV, FUNC_DIVU, FUNC_ADD,
   FUNC_ADDU, FUNC_SUB, FUNC_SUBU, FUNC_AND, FUNC_OR, FUNC_XOR, FUNC_SLT,
   FUNC_SLTU}

\* the rt values SimulateBswitch knows
RT_BLTZ == 0
RT_BGEZ == 1
RT_BLTZAL == 16
RT_BGEZAL == 17

\* enum mips_regids
zero == 0
v0 == 2
a0 == 4
a1 == 5
t0 == 8
t1 == 9
t2 == 10
ra == 31

\* enum regids (used by the loader)
REGID_SP == 29

(***************************************************************************)
(* union mips_instruction: the bit-fields of a fetched word                *)
(***************************************************************************)
Opcode(w) == Hi16(w) \div 1024

Rs(w) == (Hi16(w) \div 32) % 32

Rt(w) == Hi16(w) % 32

Rd(w) == Lo16(w) \div 2048

Shamt(w) == (Lo16(w) \div 64) % 32

Func(w) == Lo16(w) % 64

\* itype.imm is an unsigned 16-bit field: it reads as 0 .. 65535
Imm(w) == Lo16(w)

\* jtype.addr is an unsigned 26-bit field
Addr(w) == ((Hi16(w) % 1024) * H) + Lo16(w)

(***************************************************************************)
(* Virtual memory: struct virtual_mem_region, kept as the linked list in   *)
(* list order.  data holds the non-zero cells of the calloc'd array; a     *)
(* cell that is not in its domain holds 0.                                 *)
(***************************************************************************)
Cell(data, k) == IF k \in DOMAIN data THEN data[k] ELSE 0

Put(data, k, v) ==
  LET D == IF v = 0 THEN DOMAIN data \ {k} ELSE DOMAIN data \cup {k}
  IN  [j \in D |-> IF j = k THEN v ELSE data[j]]

\* the negation of the "not in range" test of both memory functions
InRange(address, r) ==
  ~(ULt(address, r.vaddr) \/ ULe(Add32(r.vaddr, r.len), address))

\* index of the first region of the list that holds the address, 0 if none
FindRegion(address, mem) ==
  LET S == {i \in 1..Len(mem) : InRange(address, mem[i])}
  IN  IF S = {} THEN 0 ELSE CHOOSE i \in S : \A j \in S : i <= j

RegionOffset(address, mem) == Sub32(address, mem[FindRegion(address, mem)].vaddr)

\* "none" when the access goes through, else the diagnostic before exit(1)
MemFault(address, mem) ==
  IF FindRegion(address, mem) = 0 THEN "nonexistent"
  ELSE IF Lo16(RegionOffset(address, mem)) % 4 # 0 THEN "unaligned"
  ELSE "none"

\* the word returned when MemFault(address, mem) = "none"
FetchWordFromVirtualMemory(address, mem) ==
  Cell(mem[FindRegion(address, mem)].data, Shr32(RegionOffset(address, mem), 2))

\* a store that also lengthens the region it writes to
StoreWordToVirtualMemory_Growing(address, value, mem) ==
  [mem EXCEPT ![FindRegion(address, mem)] =
                 [@ EXCEPT !.data = Put(@, Shr32(RegionOffset(address, mem), 2), value),
                           !.len = @ + 4]]

\* the memory left when MemFault(address, mem) = "none"
StoreWordToVirtualMemory(address, value, mem) ==
  [mem EXCEPT ![FindRegion(address, mem)].data =
                 Put(@, Shr32(RegionOffset(address, mem), 2), value)]

(***************************************************************************)
(* Guest programs: instruction words by field (the inverse of the          *)
(* bit-fields above) and the ELF images the runs start from                *)
(***************************************************************************)
IType(op, rs, rt, imm) == Mk((op * 1024) + (rs * 32) + rt, imm)

RType(rs, rt, rd, shamt, func) == Mk((rs * 32) + rt, (rd * 2048) + (shamt * 64) + func)

JType(op, addr) == Mk((op * 1024) + (addr \div H), addr % H)

\* e_entry and p_vaddr of the text segment, p_vaddr of the data segment
Entry == Mk(64, 0)

DataBase == Mk(4096, 0)

\* the instructions a run may execute before it is cut off
MaxSteps == 6

\* two instructions that load t0 and t1
Setups ==
  { <<IType(OP_LUI, zero, t0, 4096), IType(OP_ORI, zero, t1, 17)>>,
    <<IType(OP_LUI, zero, t0, 4096), IType(OP_ORI, zero, t1, 384)>>,
    <<IType(OP_LUI, zero, t0, 32768), IType(OP_ORI, zero, t1, 1)>>,
    <<IType(OP_LUI, zero, t0, 4096), IType(OP_ORI, t0, t0, 2)>>,
    <<IType(OP_LUI, zero, t0, 32767), IType(OP_ORI, t0, t0, 65535)>> }

BranchImms == {2, 65535}

\* the third instruction of a program
InstWords ==
  {IType(OP_BGEZ, r, rt, i) : r \in {zero, t0, t1}, rt \in {RT_BLTZ, RT_BGEZ}, i \in BranchImms}
  \cup {IType(OP_BGEZ, r, rt, 2) : r \in {zero, t0, t1}, rt \in {RT_BLTZAL, RT_BGEZAL, 2}}
  \cup {IType(op, r, zero, i) : op \in {OP_BLEZ, OP_BGTZ}, r \in {zero, t0, t1}, i \in BranchImms}
  \cup {IType(op, t0, r, i) : op \in {OP_BEQ, OP_BNE}, r \in {t0, t1}, i \in BranchImms}
  \cup {JType(op, a) : op \in {OP_J, OP_JAL}, a \in {0, 1048579}}
  \cup {IType(op, t0, rt, 65535) :
          op \in {OP_ADDI, OP_ADDIU, OP_SLTI, OP_SLTIU, OP_ANDI, OP_ORI, OP_XORI, OP_LUI},
          rt \in {zero, t2}}
  \cup {IType(OP_ORI, zero, v0, n) : n \in {1, 4, 5, 8, 10, 11}}
  \cup {IType(op, t0, t1, i) : op \in {OP_SB, OP_SW}, i \in {0, 1, 2, 3, 4}}
  \cup {IType(op, t0, rt, i) : op \in {OP_LB, OP_LW}, rt \in {zero, t2}, i \in {0, 2}}
  \cup {IType(OP_SW, t0, t1, 65532), IType(OP_LW, t0, t2, 65532)}
  \cup {RType(zero, t0, rd, 4, f) : f \in {FUNC_SLL, FUNC_SRL, FUNC_SRA}, rd \in {zero, t2}}
  \cup {RType(t1, t0, t2, 0, f) : f \in {FUNC_SLLV, FUNC_SRLV}}
  \cup {RType(r, zero, zero, 0, FUNC_JR) : r \in {zero, t0, ra}}
  \cup {RType(zero, zero, rd, 0, f) : f \in {FUNC_MFHI, FUNC_MFLO}, rd \in {zero, t2}}
  \cup {RType(t0, r, zero, 0, f) :
          f \in {FUNC_MULT, FUNC_MULTU, FUNC_DIV, FUNC_DIVU}, r \in {zero, t1}}
  \cup {RType(t0, t1, rd, 0, f) :
          f \in {FUNC_ADD, FUNC_ADDU, FUNC_SUB, FUNC_SUBU, FUNC_AND, FUNC_OR,
                 FUNC_XOR, FUNC_SLT, FUNC_SLTU},
          rd \in {zero, t2}}
  \cup {RType(zero, zero, zero, 0, FUNC_SYSCALL)}
  \cup {RType(zero, zero, zero, 0, 63), RType(t0, t1, t2, 0, 7), IType(63, zero, zero, 0),
        IType(36, t0, t2, 0)}

\* the fourth instruction of a program
FollowWords ==
  {IType(OP_LW, t0, t2, i) : i \in {0, 2, 4}}
  \cup {IType(OP_LB, t0, t2, i) : i \in {0, 1, 2, 3}}
  \cup {RType(zero, zero, zero, 0, FUNC_SYSCALL),
        RType(ra, zero, zero, 0, FUNC_JR),
        RType(zero, zero, zero, 0, FUNC_JR),
        RType(zero, zero, t2, 0, FUNC_MFHI),
        RType(zero, zero, t2, 0, FUNC_MFLO),
        RType(zero, zero, t2, 0, FUNC_OR),
        IType(OP_SW, zero, zero, 0),
        RType(t2, t0, t2, 0, FUNC_SUBU),
        IType(OP_ORI, t2, t2, 4660)}

\* programs written out in full
Scenarios ==
  { \* stores the word of J 0 at 0x10000000 and jumps to it
    <<IType(OP_LUI, zero, t0, 4096), IType(OP_LUI, zero, t1, 2048),
      IType(OP_SW, t0, t1, 0), RType(t0, zero, zero, 0, FUNC_JR)>>,
    \* 0x7FFFFFFF + 1
    <<IType(OP_LUI, zero, t0, 32767), IType(OP_ORI, t0, t0, 65535),
      IType(OP_ADDI, t0, t2, 1), RType(zero, zero, zero, 0, FUNC_SYSCALL)>>,
    <<IType(OP_LUI, zero, t0, 32767), IType(OP_ORI, t0, t0, 65535),
      IType(OP_ORI, zero, t1, 1), RType(t0, t1, t2, 0, FUNC_ADD)>>,
    <<IType(OP_LUI, zero, t0, 32767), IType(OP_ORI, t0, t0, 65535),
      IType(OP_ORI, zero, t1, 1), RType(t0, t1, t2, 0, FUNC_ADDU)>>,
    \* -7 / 2
    <<IType(OP_LUI, zero, t0, 65535), IType(OP_ORI, t0, t0, 65529),
      IType(OP_ORI, zero, t1, 2), RType(t0, t1, zero, 0, FUNC_DIV)>>,
    <<IType(OP_LUI, zero, t0, 65535), IType(OP_ORI, t0, t0, 65529),
      IType(OP_ORI, zero, t1, 2), RType(t0, t1, zero, 0, FUNC_DIVU)>>,
    \* a word access 4 below regs[t0] = 0x10000004
    <<IType(OP_LUI, zero, t0, 4096), IType(OP_ORI, t0, t0, 4),
      IType(OP_LW, t0, t2, 65532), RType(zero, zero, zero, 0, FUNC_SYSCALL)>>,
    <<IType(OP_LUI, zero, t0, 4096), IType(OP_ORI, t0, t0, 4),
      IType(OP_ORI, zero, t1, 17), IType(OP_SW, t0, t1, 65532)>>,
    \* print_string of the bytes at 0x10000000
    <<IType(OP_LUI, zero, a0, 4096), IType(OP_ORI, zero, v0, 4),
      RType(zero, zero, zero, 0, FUNC_SYSCALL), RType(zero, zero, zero, 0, FUNC_SYSCALL)>>,
    \* LUI then ORI on register 0 and on t2, with bit 15 of both immediates set
    <<IType(OP_LUI, zero, zero, 4660), IType(OP_ORI, zero, zero, 22136),
      IType(OP_LUI, zero, t2, 32768), IType(OP_ORI, t2, t2, 32768)>>,
    \* ADDU then SUBU: into register 0, onto its own rs, onto its own rt, and
    \* with a sum that wraps
    <<IType(OP_LUI, zero, t0, 32768), IType(OP_ORI, zero, t1, 1),
      RType(t0, t1, zero, 0, FUNC_ADDU), RType(zero, t0, t2, 0, FUNC_SUBU)>>,
    <<IType(OP_LUI, zero, t0, 32768), IType(OP_ORI, zero, t1, 1),
      RType(t0, t1, t0, 0, FUNC_ADDU), RType(t0, t0, t2, 0, FUNC_SUBU)>>,
    <<IType(OP_LUI, zero, t0, 32768), IType(OP_ORI, zero, t1, 1),
      RType(t0, t1, t1, 0, FUNC_ADDU), RType(t1, t0, t2, 0, FUNC_SUBU)>>,
    <<IType(OP_LUI, zero, t0, 65535), IType(OP_LUI, zero, t1, 1),
      RType(t0, t1, t2, 0, FUNC_ADDU), RType(t2, t0, t1, 0, FUNC_SUBU)>>,
    \* shifts by regs[t1] = 33
    <<IType(OP_ORI, zero, t1, 33), IType(OP_LUI, zero, t0, 32768),
      RType(t1, t0, t2, 0, FUNC_SRLV), RType(t1, t2, t2, 0, FUNC_SLLV)>>,
    \* a store and a jump that read register 0 after a load into it
    <<IType(OP_LUI, zero, t0, 4096), IType(OP_LB, t0, zero, 0),
      IType(OP_SW, t0, zero, 0), RType(zero, zero, zero, 0, FUNC_JR)>> }

Programs ==
  {s \o <<i, f>> : s \in Setups, i \in InstWords, f \in FollowWords} \cup Scenarios

\* the cells of a region that holds the words of seq from cell 0 on
Image(seq) == [k \in {j - 1 : j \in {i \in 1..Len(seq) : seq[i] # 0}} |-> seq[k + 1]]

\* the data segments of the ELF images: at a word-aligned p_vaddr, and at one
\* that is not word-aligned
DataSegments ==
  { [vaddr |-> DataBase, len |-> 8, data |-> Image(<<Mk(43707, 52445), 0>>)],
    [vaddr |-> Add32(DataBase, 2), len |-> 8, data |-> Image(<<Mk(43707, 52445), 0>>)] }

\* values <<HI, LO>> the uninitialized fields of main's context may hold
UninitWords == {<<0, 0>>, <<Mk(57005, 48879), Mk(2989, 61453)>>}

(***************************************************************************)
(* State                                                                   *)
(***************************************************************************)
VARIABLES
  pc,        \* ctx->pc
  regs,      \* ctx->regs
  HI,        \* ctx->HI
  LO,        \* ctx->LO
  memory,    \* the list of regions
  inst,      \* inst.word of RunSimulator: the last word fetched
  phase,     \* where the run loop stands: "fetch" or "execute"
  status,    \* "running", "returned" (main returns), "exited" (exit()), "killed"
  exitcode,  \* the status of the process once it has ended, -1 before
  diag,      \* the last diagnostic printed
  stdout,    \* what the system calls have printed
  steps,     \* instructions executed so far
  last       \* history: the word executed before inst.word was fetched, the
             \* address it was fetched from and ctx->regs as it found them

vars ==
  <<pc, regs, HI, LO, memory, inst, phase, status, exitcode, diag, stdout, steps, last>>

\* ReadELF of an image with a text and a data segment, followed by main's
\* call of RunSimulator
Init ==
  /\ pc = Entry
  /\ regs = [r \in 0..31 |-> IF r = REGID_SP THEN Sub32(Add32(Mk(49152, 0), 32768), 4) ELSE 0]
  /\ \E u \in UninitWords : HI = u[1] /\ LO = u[2]
  /\ \E prog \in Programs, d \in DataSegments :
       memory = << [vaddr |-> Mk(49152, 0), len |-> 32768, data |-> Image(<<>>)],
                   d,
                   [vaddr |-> Entry, len |-> 4 * Len(prog), data |-> Image(prog)] >>
  /\ inst = 0
  /\ phase = "fetch"
  /\ status = "running"
  /\ exitcode = -1
  /\ diag = "none"
  /\ stdout = <<>>
  /\ steps = 0
  /\ last = [word |-> 0, pc |-> 0, regs |-> regs]

(***************************************************************************)
(* The run loop.  An iteration of the while(1) of RunSimulator is a Fetch  *)
(* followed by one execute action: SimulateInstruction's clamp of          *)
(* regs[zero], the dispatch, and the handler the dispatch reaches.  The    *)
(* states between two iterations are those with phase = "fetch".           *)
(***************************************************************************)
Running == status = "running" /\ steps < MaxSteps

\* the registers without the clearing of regs[zero]
regs0_Unclamped == regs

\* ctx->regs[zero] = 0 at the top of SimulateInstruction
regs0 == [regs EXCEPT ![zero] = 0]

\* SimulateInstruction runs on a fetched word with primary opcode op
Exec(op) ==
  /\ status = "running"
  /\ phase = "execute"
  /\ Opcode(inst) = op
  /\ steps' = steps + 1
  /\ last' = [word |-> inst, pc |-> pc, regs |-> regs]
  /\ UNCHANGED inst

\* ... on an R-type word with function code fn
ExecR(fn) == Exec(OP_RTYPE) /\ Func(inst) = fn

\* ... on a word of opcode 0x01 with rt field sel
ExecB(sel) == Exec(OP_BGEZ) /\ Rt(inst) = sel

\* the handler returns, SimulateInstruction returns 1 and the loop goes on
Continue == phase' = "fetch" /\ UNCHANGED <<status, exitcode, diag>>

\* exit(1) after the diagnostic d
Exit1(d) == status' = "exited" /\ exitcode' = 1 /\ diag' = d /\ UNCHANGED phase

\* the process is killed by signal sig
Killed(sig) == status' = "killed" /\ exitcode' = 128 + sig /\ UNCHANGED <<phase, diag>>

Advance == pc' = Add32(pc, 4)

WriteReg(r, v) == regs' = [regs0 EXCEPT ![r] = v]

\* inst.word = FetchWordFromVirtualMemory(ctx->pc, memory)
Fetch ==
  /\ Running
  /\ phase = "fetch"
  /\ MemFault(pc, memory) = "none"
  /\ inst' = FetchWordFromVirtualMemory(pc, memory)
  /\ phase' = "execute"
  /\ UNCHANGED <<pc, regs, HI, LO, memory, status, exitcode, diag, stdout, steps, last>>

\* the fetch faults: exit(1) before SimulateInstruction runs
FetchFault ==
  /\ Running
  /\ phase = "fetch"
  /\ MemFault(pc, memory) # "none"
  /\ Exit1(MemFault(pc, memory))
  /\ UNCHANGED <<pc, regs, HI, LO, memory, inst, stdout, steps, last>>

\* default of SimulateInstruction: return 0, the loop breaks, main returns 0
InvalidOpcode ==
  /\ status = "running"
  /\ phase = "execute"
  /\ Opcode(inst) \notin Opcodes
  /\ steps' = steps + 1
  /\ last' = [word |-> inst, pc |-> pc, regs |-> regs]
  /\ regs' = regs0
  /\ status' = "returned"
  /\ exitcode' = 0
  /\ diag' = "opcode"
  /\ UNCHANGED <<pc, HI, LO, memory, inst, phase, stdout>>

\* default of SimulateRtypeInstruction: its return 0 is dropped by the
\* caller, which returns 1
InvalidFunc ==
  /\ Exec(OP_RTYPE)
  /\ Func(inst) \notin Functions
  /\ regs' = regs0
  /\ diag' = "func"
  /\ phase' = "fetch"
  /\ UNCHANGED <<pc, HI, LO, memory, status, exitcode, stdout>>

\* an unknown rt field of opcode 0x01 that ends the run loop as an unknown
\* opcode does
InvalidBswitch_Stops ==
  /\ Exec(OP_BGEZ)
  /\ Rt(inst) \notin {RT_BLTZ, RT_BGEZ, RT_BLTZAL, RT_BGEZAL}
  /\ regs' = regs0
  /\ status' = "returned"
  /\ exitcode' = 0
  /\ UNCHANGED <<pc, HI, LO, memory, stdout, phase, diag>>

\* default of SimulateBswitch: its return 0 is dropped as well
InvalidBswitch ==
  /\ Exec(OP_BGEZ)
  /\ Rt(inst) \notin {RT_BLTZ, RT_BGEZ, RT_BLTZAL, RT_BGEZAL}
  /\ regs' = regs0
  /\ Continue
  /\ UNCHANGED <<pc, HI, LO, memory, stdout>>

(***************************************************************************)
(* Branches and jumps                                                      *)
(***************************************************************************)
\* a branch target that adds the immediate without the shift by 2
BranchTarget_Unshifted(p, imm) == Add32(p, imm)

\* ctx->pc + (imm << 2), imm being the unsigned 16-bit field
BranchTarget(p, imm) == Add32(p, imm * 4)

\* (imm << 2) alone, as the opcode-0x01 handlers assign it
BswitchTarget(imm) == imm * 4

\* a jump target that drops the upper four bits of pc
JumpTarget_NoSegment(p, addr) == Mk((addr * 4) \div H, (addr * 4) % H)

\* (ctx->pc & 0xf0000000) | (addr << 2)
JumpTarget(p, addr) ==
  Mk(((Hi16(p) \div 4096) * 4096) + ((addr * 4) \div H), (addr * 4) % H)

\* the conditions as C evaluates them on uint32_t
CondGEZ(x) == ULe(0, x)

CondLTZ(x) == ULt(x, 0)

CondLEZ(x) == ULe(x, 0)

CondGTZ(x) == ULt(0, x)

simBGEZ ==
  /\ ExecB(RT_BGEZ)
  /\ pc' = IF CondGEZ(regs0[Rs(inst)]) THEN BswitchTarget(Imm(inst)) ELSE Add32(pc, 4)
  /\ regs' = regs0
  /\ Continue
  /\ UNCHANGED <<HI, LO, memory, stdout>>

simBGEZAL ==
  /\ ExecB(RT_BGEZAL)
  /\ IF CondGEZ(regs0[Rs(inst)])
     THEN WriteReg(ra, Add32(pc, 8)) /\ pc' = BswitchTarget(Imm(inst))
     ELSE regs' = regs0 /\ Advance
  /\ Continue
  /\ UNCHANGED <<HI, LO, memory, stdout>>

simBLTZ ==
  /\ ExecB(RT_BLTZ)
  /\ pc' = IF CondLTZ(regs0[Rs(inst)]) THEN BswitchTarget(Imm(inst)) ELSE Add32(pc, 4)
  /\ regs' = regs0
  /\ Continue
  /\ UNCHANGED <<HI, LO, memory, stdout>>

simBLTZAL ==
  /\ ExecB(RT_BLTZAL)
  /\ IF CondLTZ(regs0[Rs(inst)])
     THEN WriteReg(ra, Add32(pc, 8)) /\ pc' = BswitchTarget(Imm(inst))
     ELSE regs' = regs0 /\ Advance
  /\ Continue
  /\ UNCHANGED <<HI, LO, memory, stdout>>

simJ ==
  /\ Exec(OP_J)
  /\ pc' = JumpTarget(pc, Addr(inst))
  /\ regs' = regs0
  /\ Continue
  /\ UNCHANGED <<HI, LO, memory, stdout>>

simJAL ==
  /\ Exec(OP_JAL)
  /\ WriteReg(ra, Add32(pc, 8))
  /\ pc' = JumpTarget(pc, Addr(inst))
  /\ Continue
  /\ UNCHANGED <<HI, LO, memory, stdout>>

simBEQ ==
  /\ Exec(OP_BEQ)
  /\ pc' = IF regs0[Rs(inst)] = regs0[Rt(inst)]
           THEN BranchTarget(pc, Imm(inst)) ELSE Add32(pc, 4)
  /\ regs' = regs0
  /\ Continue
  /\ UNCHANGED <<HI, LO, memory, stdout>>

simBNE ==
  /\ Exec(OP_BNE)
  /\ pc' = IF regs0[Rs(inst)] # regs0[Rt(inst)]
           THEN BranchTarget(pc, Imm(inst)) ELSE Add32(pc, 4)
  /\ regs' = regs0
  /\ Continue
  /\ UNCHANGED <<HI, LO, memory, stdout>>

simBLEZ ==
  /\ Exec(OP_BLEZ)
  /\ pc' = IF CondLEZ(regs0[Rs(inst)]) THEN BranchTarget(pc, Imm(inst)) ELSE Add32(pc, 4)
  /\ regs' = regs0
  /\ Continue
  /\ UNCHANGED <<HI, LO, memory, stdout>>

simBGTZ ==
  /\ Exec(OP_BGTZ)
  /\ pc' = IF CondGTZ(regs0[Rs(inst)]) THEN BranchTarget(pc, Imm(inst)) ELSE Add32(pc, 4)
  /\ regs' = regs0
  /\ Continue
  /\ UNCHANGED <<HI, LO, memory, stdout>>

simJR ==
  /\ ExecR(FUNC_JR)
  /\ pc' = regs0[Rs(inst)]
  /\ regs' = regs0
  /\ Continue
  /\ UNCHANGED <<HI, LO, memory, stdout>>

(***************************************************************************)
(* Immediate arithmetic and logic: the immediate is the unsigned field     *)
(***************************************************************************)
\* 1 or 0 of an unsigned x < y
SetLess(x, y) == IF ULt(x, y) THEN 1 ELSE 0

simADDI ==
  /\ Exec(OP_ADDI)
  /\ WriteReg(Rt(inst), Add32(regs0[Rs(inst)], Imm(inst)))
  /\ Advance
  /\ Continue
  /\ UNCHANGED <<HI, LO, memory, stdout>>

simADDIU ==
  /\ Exec(OP_ADDIU)
  /\ WriteReg(Rt(inst), Add32(regs0[Rs(inst)], Imm(inst)))
  /\ Advance
  /\ Continue
  /\ UNCHANGED <<HI, LO, memory, stdout>>

simSLTI ==
  /\ Exec(OP_SLTI)
  /\ WriteReg(Rt(inst), SetLess(regs0[Rs(inst)], Imm(inst)))
  /\ Advance
  /\ Continue
  /\ UNCHANGED <<HI, LO, memory, stdout>>

simSLTIU ==
  /\ Exec(OP_SLTIU)
  /\ WriteReg(Rt(inst), SetLess(regs0[Rs(inst)], Imm(inst)))
  /\ Advance
  /\ Continue
  /\ UNCHANGED <<HI, LO, memory, stdout>>

simANDI ==
  /\ Exec(OP_ANDI)
  /\ WriteReg(Rt(inst), And32(regs0[Rs(inst)], Imm(inst)))
  /\ Advance
  /\ Continue
  /\ UNCHANGED <<HI, LO, memory, stdout>>

\* an ORI that sign-extends its immediate
simORI_SignExtending ==
  /\ Exec(OP_ORI)
  /\ WriteReg(Rt(inst),
              Or32(regs0[Rs(inst)],
                   IF Imm(inst) >= 32768 THEN Imm(inst) - 65536 ELSE Imm(inst)))
  /\ Advance
  /\ Continue
  /\ UNCHANGED <<HI, LO, memory, stdout>>

simORI ==
  /\ Exec(OP_ORI)
  /\ WriteReg(Rt(inst), Or32(regs0[Rs(inst)], Imm(inst)))
  /\ Advance
  /\ Continue
  /\ UNCHANGED <<HI, LO, memory, stdout>>

simXORI ==
  /\ Exec(OP_XORI)
  /\ WriteReg(Rt(inst), Xor32(regs0[Rs(inst)], Imm(inst)))
  /\ Advance
  /\ Continue
  /\ UNCHANGED <<HI, LO, memory, stdout>>

\* imm << 16 is an int shift; for imm >= 0x8000 it leaves the int range and
\* the compilers in use produce the wrapped bit pattern
simLUI ==
  /\ Exec(OP_LUI)
  /\ WriteReg(Rt(inst), Mk(Imm(inst), 0))
  /\ Advance
  /\ Continue
  /\ UNCHANGED <<HI, LO, memory, stdout>>

(***************************************************************************)
(* Loads and stores                                                        *)
(***************************************************************************)
\* regs[rs] + imm
EffAddr(w) == Add32(regs0[Rs(w)], Imm(w))

\* the byte lane simLB and simSB select: imm % 4
Lane(w) == Imm(w) % 4

\* the address simLB and simSB fetch from: regs[rs] + imm - lane
LaneFetchAddr(w) == Sub32(EffAddr(w), Lane(w))

\* the address simSB stores to: regs[rs] + imm
LaneStoreAddr(w) == EffAddr(w)

\* 0x000000ff, 0x0000ff00, 0x00ff0000, 0xff000000
LaneMask(k) ==
  CASE k = 0 -> Mk(0, 255)
    [] k = 1 -> Mk(0, 65280)
    [] k = 2 -> Mk(255, 0)
    [] OTHER -> Mk(65280, 0)

\* 0xffffff00, 0xffff00ff, 0xff00ffff, 0x00ffffff
LaneKeep(k) ==
  CASE k = 0 -> Mk(65535, 65280)
    [] k = 1 -> Mk(65535, 255)
    [] k = 2 -> Mk(65280, 65535)
    [] OTHER -> Mk(255, 65535)

\* (fetched & mask) >> 8*lane: no sign extension
LoadedByte(w, k) == Shr32(And32(w, LaneMask(k)), 8 * k)

\* (fetched & keep) | ((regs[rt] << 8*lane) & mask)
MergedWord(w, v, k) == Or32(And32(w, LaneKeep(k)), And32(Shl32(v, 8 * k), LaneMask(k)))

simLB ==
  /\ Exec(OP_LB)
  /\ IF MemFault(LaneFetchAddr(inst), memory) # "none"
     THEN /\ Exit1(MemFault(LaneFetchAddr(inst), memory))
          /\ regs' = regs0
          /\ UNCHANGED pc
     ELSE /\ WriteReg(Rt(inst),
                      LoadedByte(FetchWordFromVirtualMemory(LaneFetchAddr(inst), memory),
                                 Lane(inst)))
          /\ Advance
          /\ Continue
  /\ UNCHANGED <<HI, LO, memory, stdout>>

simLW ==
  /\ Exec(OP_LW)
  /\ IF MemFault(EffAddr(inst), memory) # "none"
     THEN /\ Exit1(MemFault(EffAddr(inst), memory))
          /\ regs' = regs0
          /\ UNCHANGED pc
     ELSE /\ WriteReg(Rt(inst), FetchWordFromVirtualMemory(EffAddr(inst), memory))
          /\ Advance
          /\ Continue
  /\ UNCHANGED <<HI, LO, memory, stdout>>

simSB ==
  /\ Exec(OP_SB)
  /\ regs' = regs0
  /\ IF MemFault(LaneFetchAddr(inst), memory) # "none"
     THEN /\ Exit1(MemFault(LaneFetchAddr(inst), memory))
          /\ UNCHANGED <<pc, memory>>
     ELSE IF MemFault(LaneStoreAddr(inst), memory) # "none"
     THEN /\ Exit1(MemFault(LaneStoreAddr(inst), memory))
          /\ UNCHANGED <<pc, memory>>
     ELSE /\ memory' = StoreWordToVirtualMemory(
                         LaneStoreAddr(inst),
                         MergedWord(FetchWordFromVirtualMemory(LaneFetchAddr(inst), memory),
                                    regs0[Rt(inst)], Lane(inst)),
                         memory)
          /\ Advance
          /\ Continue
  /\ UNCHANGED <<HI, LO, stdout>>

simSW ==
  /\ Exec(OP_SW)
  /\ regs' = regs0
  /\ IF MemFault(EffAddr(inst), memory) # "none"
     THEN /\ Exit1(MemFault(EffAddr(inst), memory))
          /\ UNCHANGED <<pc, memory>>
     ELSE /\ memory' = StoreWordToVirtualMemory(EffAddr(inst), regs0[Rt(inst)], memory)
          /\ Advance
          /\ Continue
  /\ UNCHANGED <<HI, LO, stdout>>

(***************************************************************************)
(* R-type arithmetic, logic and shifts                                     *)
(***************************************************************************)
simSLL ==
  /\ ExecR(FUNC_SLL)
  /\ WriteReg(Rd(inst), Shl32(regs0[Rt(inst)], Shamt(inst)))
  /\ Advance
  /\ Continue
  /\ UNCHANGED <<HI, LO, memory, stdout>>

simSRL ==
  /\ ExecR(FUNC_SRL)
  /\ WriteReg(Rd(inst), Shr32(regs0[Rt(inst)], Shamt(inst)))
  /\ Advance
  /\ Continue
  /\ UNCHANGED <<HI, LO, memory, stdout>>

\* the operand is a uint32_t: >> shifts zeros in
simSRA ==
  /\ ExecR(FUNC_SRA)
  /\ WriteReg(Rd(inst), Shr32(regs0[Rt(inst)], Shamt(inst)))
  /\ Advance
  /\ Continue
  /\ UNCHANGED <<HI, LO, memory, stdout>>

\* x << n and x >> n with a uint32_t count n: a count of 32 or more is
\* undefined in C; the hardware shift either uses the low five bits of the
\* count or shifts everything out
VarShl(x, n) == IF ULt(n, 32) THEN {Shl32(x, n)} ELSE {Shl32(x, Lo16(n) % 32), 0}

VarShr(x, n) == IF ULt(n, 32) THEN {Shr32(x, n)} ELSE {Shr32(x, Lo16(n) % 32), 0}

simSLLV ==
  /\ ExecR(FUNC_SLLV)
  /\ \E v \in VarShl(regs0[Rt(inst)], regs0[Rs(inst)]) : WriteReg(Rd(inst), v)
  /\ Advance
  /\ Continue
  /\ UNCHANGED <<HI, LO, memory, stdout>>

simSRLV ==
  /\ ExecR(FUNC_SRLV)
  /\ \E v \in VarShr(regs0[Rt(inst)], regs0[Rs(inst)]) : WriteReg(Rd(inst), v)
  /\ Advance
  /\ Continue
  /\ UNCHANGED <<HI, LO, memory, stdout>>

simMFHI ==
  /\ ExecR(FUNC_MFHI)
  /\ WriteReg(Rd(inst), HI)
  /\ Advance
  /\ Continue
  /\ UNCHANGED <<HI, LO, memory, stdout>>

simMFLO ==
  /\ ExecR(FUNC_MFLO)
  /\ WriteReg(Rd(inst), LO)
  /\ Advance
  /\ Continue
  /\ UNCHANGED <<HI, LO, memory, stdout>>

simMULT ==
  /\ ExecR(FUNC_MULT)
  /\ LO' = Mul32(regs0[Rs(inst)], regs0[Rt(inst)])
  /\ regs' = regs0
  /\ Advance
  /\ Continue
  /\ UNCHANGED <<HI, memory, stdout>>

simMULTU ==
  /\ ExecR(FUNC_MULTU)
  /\ LO' = Mul32(regs0[Rs(inst)], regs0[Rt(inst)])
  /\ regs' = regs0
  /\ Advance
  /\ Continue
  /\ UNCHANGED <<HI, memory, stdout>>

\* uint32_t / and %.  A zero divisor is undefined in C: the host either
\* raises SIGFPE, which kills the process, or its divide instruction yields a
\* zero quotient, which leaves the dividend as the remainder
Divide(x, y) ==
  IF y = 0
  THEN {[trap |-> TRUE, lo |-> 0, hi |-> 0], [trap |-> FALSE, lo |-> 0, hi |-> x]}
  ELSE {[trap |-> FALSE, lo |-> UDiv32(x, y), hi |-> UMod32(x, y)]}

simDIV ==
  /\ ExecR(FUNC_DIV)
  /\ regs' = regs0
  /\ \E d \in Divide(regs0[Rs(inst)], regs0[Rt(inst)]) :
       IF d.trap
       THEN /\ Killed(8)
            /\ UNCHANGED <<pc, HI, LO>>
       ELSE /\ LO' = d.lo /\ HI' = d.hi
            /\ Advance
            /\ Continue
  /\ UNCHANGED <<memory, stdout>>

simDIVU ==
  /\ ExecR(FUNC_DIVU)
  /\ regs' = regs0
  /\ \E d \in Divide(regs0[Rs(inst)], regs0[Rt(inst)]) :
       IF d.trap
       THEN /\ Killed(8)
            /\ UNCHANGED <<pc, HI, LO>>
       ELSE /\ LO' = d.lo /\ HI' = d.hi
            /\ Advance
            /\ Continue
  /\ UNCHANGED <<memory, stdout>>

simADD ==
  /\ ExecR(FUNC_ADD)
  /\ WriteReg(Rd(inst), Add32(regs0[Rs(inst)], regs0[Rt(inst)]))
  /\ Advance
  /\ Continue
  /\ UNCHANGED <<HI, LO, memory, stdout>>

simADDU ==
  /\ ExecR(FUNC_ADDU)
  /\ WriteReg(Rd(inst), Add32(regs0[Rs(inst)], regs0[Rt(inst)]))
  /\ Advance
  /\ Continue
  /\ UNCHANGED <<HI, LO, memory, stdout>>

simSUB ==
  /\ ExecR(FUNC_SUB)
  /\ WriteReg(Rd(inst), Sub32(regs0[Rs(inst)], regs0[Rt(inst)]))
  /\ Advance
  /\ Continue
  /\ UNCHANGED <<HI, LO, memory, stdout>>

\* a SUBU that subtracts the other way round
simSUBU_Reversed ==
  /\ ExecR(FUNC_SUBU)
  /\ WriteReg(Rd(inst), Sub32(regs0[Rt(inst)], regs0[Rs(inst)]))
  /\ Advance
  /\ Continue
  /\ UNCHANGED <<HI, LO, memory, stdout>>

simSUBU ==
  /\ ExecR(FUNC_SUBU)
  /\ WriteReg(Rd(inst), Sub32(regs0[Rs(inst)], regs0[Rt(inst)]))
  /\ Advance
  /\ Continue
  /\ UNCHANGED <<HI, LO, memory, stdout>>

simAND ==
  /\ ExecR(FUNC_AND)
  /\ WriteReg(Rd(inst), And32(regs0[Rs(inst)], regs0[Rt(inst)]))
  /\ Advance
  /\ Continue
  /\ UNCHANGED <<HI, LO, memory, stdout>>

simOR ==
  /\ ExecR(FUNC_OR)
  /\ WriteReg(Rd(inst), Or32(regs0[Rs(inst)], regs0[Rt(inst)]))
  /\ Advance
  /\ Continue
  /\ UNCHANGED <<HI, LO, memory, stdout>>

simXOR ==
  /\ ExecR(FUNC_XOR)
  /\ WriteReg(Rd(inst), Xor32(regs0[Rs(inst)], regs0[Rt(inst)]))
  /\ Advance
  /\ Continue
  /\ UNCHANGED <<HI, LO, memory, stdout>>

simSLT ==
  /\ ExecR(FUNC_SLT)
  /\ WriteReg(Rd(inst), SetLess(regs0[Rs(inst)], regs0[Rt(inst)]))
  /\ Advance
  /\ Continue
  /\ UNCHANGED <<HI, LO, memory, stdout>>

simSLTU ==
  /\ ExecR(FUNC_SLTU)
  /\ WriteReg(Rd(inst), SetLess(regs0[Rs(inst)], regs0[Rt(inst)]))
  /\ Advance
  /\ Continue
  /\ UNCHANGED <<HI, LO, memory, stdout>>

(***************************************************************************)
(* System calls                                                            *)
(***************************************************************************)
\* Calls 4, 5 and 8 hand a guest register to printf("%s") or scanf as if it
\* were a host pointer, which is undefined: the process is killed by the
\* access (SIGSEGV), or it survives it (the host address is readable, scanf
\* matches no input) and the call returns
HostPointerOutcomes == {"killed", "survives"}

\* a system call handler that ends the run on an unknown call number
SimulateSyscall_UnknownFatal ==
  /\ ExecR(FUNC_SYSCALL)
  /\ regs' = regs0
  /\ LET callnum == regs0[v0]
     IN  CASE callnum = 1 ->
                /\ stdout' = Append(stdout, <<"int", regs0[a0]>>)
                /\ Advance
                /\ Continue
           [] callnum = 4 ->
                \E o \in HostPointerOutcomes :
                  IF o = "killed"
                  THEN /\ Killed(11)
                       /\ UNCHANGED <<pc, stdout>>
                  ELSE /\ stdout' = Append(stdout, <<"hostbytes", regs0[a0]>>)
                       /\ Advance
                       /\ Continue
           [] callnum \in {5, 8} ->
                \E o \in HostPointerOutcomes :
                  IF o = "killed"
                  THEN /\ Killed(11)
                       /\ UNCHANGED <<pc, stdout>>
                  ELSE /\ Advance
                       /\ Continue
                       /\ UNCHANGED stdout
           [] callnum = 10 ->
                /\ status' = "exited" /\ exitcode' = 1
                /\ UNCHANGED <<pc, diag, stdout, phase>>
           [] OTHER ->
                /\ Exit1("syscall")
                /\ UNCHANGED <<pc, stdout>>
  /\ UNCHANGED <<HI, LO, memory>>

SimulateSyscall ==
  /\ ExecR(FUNC_SYSCALL)
  /\ regs' = regs0
  /\ LET callnum == regs0[v0]
     IN  CASE callnum = 1 ->
                /\ stdout' = Append(stdout, <<"int", regs0[a0]>>)
                /\ Advance
                /\ Continue
           [] callnum = 4 ->
                \E o \in HostPointerOutcomes :
                  IF o = "killed"
                  THEN /\ Killed(11)
                       /\ UNCHANGED <<pc, stdout>>
                  ELSE /\ stdout' = Append(stdout, <<"hostbytes", regs0[a0]>>)
                       /\ Advance
                       /\ Continue
           [] callnum \in {5, 8} ->
                \E o \in HostPointerOutcomes :
                  IF o = "killed"
                  THEN /\ Killed(11)
                       /\ UNCHANGED <<pc, stdout>>
                  ELSE /\ Advance
                       /\ Continue
                       /\ UNCHANGED stdout
           [] callnum = 10 ->
                /\ status' = "exited" /\ exitcode' = 1
                /\ UNCHANGED <<pc, diag, stdout, phase>>
           [] OTHER ->
                /\ Advance
                /\ Continue
                /\ UNCHANGED stdout
  /\ UNCHANGED <<HI, LO, memory>>

(***************************************************************************)
(* Specification                                                           *)
(***************************************************************************)
Next ==
  \/ Fetch \/ FetchFault \/ InvalidOpcode \/ InvalidFunc \/ InvalidBswitch
  \/ simBGEZ \/ simBGEZAL \/ simBLTZ \/ simBLTZAL
  \/ simJ \/ simJAL \/ simBEQ \/ simBNE \/ simBLEZ \/ simBGTZ \/ simJR
  \/ simADDI \/ simADDIU \/ simSLTI \/ simSLTIU
  \/ simANDI \/ simORI \/ simXORI \/ simLUI
  \/ simLB \/ simLW \/ simSB \/ simSW
  \/ simSLL \/ simSRL \/ simSRA \/ simSLLV \/ simSRLV
  \/ simMFHI \/ simMFLO \/ simMULT \/ simMULTU \/ simDIV \/ simDIVU
  \/ simADD \/ simADDU \/ simSUB \/ simSUBU
  \/ simAND \/ simOR \/ simXOR \/ simSLT \/ simSLTU
  \/ SimulateSyscall

Spec == Init /\ [][Next]_vars

TypeOK ==
  /\ status \in {"running", "returned", "exited", "killed"}
  /\ steps \in 0..MaxSteps

(***************************************************************************)
(* Vocabulary of the properties                                            *)
(***************************************************************************)
\* the word in inst has been through SimulateInstruction
Executed == steps > 0 /\ ~(status = "running" /\ phase = "execute")

\* SimulateInstruction is about to run on inst
Dispatching == status = "running" /\ phase = "execute"

IsRType(w, fn) == Opcode(w) = OP_RTYPE /\ Func(w) = fn

IsBswitch(w, sel) == Opcode(w) = OP_BGEZ /\ Rt(w) = sel

\* an unknown primary opcode, or opcode 0x00 with an unknown function code
IllegalWord(w) ==
  \/ Opcode(w) \notin Opcodes
  \/ (Opcode(w) = OP_RTYPE /\ Func(w) \notin Functions)

\* the two's-complement value of a 16-bit and of an 8-bit quantity
SignExt16(i) == IF i >= 32768 THEN i - 65536 ELSE i

SignExt8(b) == IF b >= 128 THEN b - 256 ELSE b

WordAligned(a) == a % 4 = 0

\* base <= a < base + length for some region
InSomeRegion(a, mem) ==
  \E i \in 1..Len(mem) : ULe(mem[i].vaddr, a) /\ ULt(Sub32(a, mem[i].vaddr), mem[i].len)

\* a & ~3
AlignDown(a) == Sub32(a, a % 4)

\* byte k of a word, k = 0 the low byte
ByteOf(w, k) == Lo16(Shr32(w, 8 * k)) % 256

\* the word w with byte k replaced by b
ReplaceByte(w, k, b) ==
  LET B(j) == IF j = k THEN b ELSE ByteOf(w, j)
  IN  Mk((B(3) * 256) + B(2), (B(1) * 256) + B(0))

\* the word-aligned addresses of the data segment's neighbourhood and of the
\* ends of the stack
ProbeAddrs ==
  {Add32(DataBase, 4 * k) : k \in 0..2}
  \cup {Mk(49152, 0), Mk(49152, 32764)}

\* the third and the fourth instruction of the loaded program
Third == FetchWordFromVirtualMemory(Add32(Entry, 8), memory)

Fourth == FetchWordFromVirtualMemory(Add32(Entry, 12), memory)

(***************************************************************************)
(* C1..C10                                                                 *)
(***************************************************************************)

\* C1: in every state between two run-loop iterations, that is after every
\* executed instruction, ctx.regs[0] is 0, also when the instruction named
\* register 0 as its destination.
C1_RegZeroBetweenIterations == phase = "fetch" => regs[zero] = 0

\* C2 as claimed: in every state between two instructions pc is a multiple
\* of 4, whatever instruction (JR included) led there.
C2_PcAlwaysAligned == phase = "fetch" => WordAligned(pc)

\* C2 as amended: an instruction other than JR that executes at a
\* word-aligned pc leaves pc word-aligned (pc + 4, a taken branch, J, JAL,
\* or a fault that keeps pc); JR copies regs[rs] into pc as it is.
C2_AlignedExceptJR ==
  [][(Dispatching /\ WordAligned(pc) /\ ~IsRType(inst, FUNC_JR)) => WordAligned(pc')]_vars

\* a taken BEQ has moved pc from the third instruction to Entry + 16
C2_Witness ==
  /\ phase = "fetch"
  /\ status = "running"
  /\ Opcode(inst) = OP_BEQ
  /\ pc = Add32(Entry, 16)

\* C3: once a word with an unknown primary opcode, or with opcode 0x00 and
\* an unknown function code, has been executed, the run loop has ended
\* gracefully: RunSimulator returned, the process status is 0 and a
\* diagnostic was printed; the loop does not go on from there.
C3_IllegalInstructionStops ==
  (Executed /\ IllegalWord(inst)) =>
    (status = "returned" /\ exitcode = 0 /\ diag \in {"opcode", "func"})

\* C4: SYSCALL with regs[v0] = 10 ends the process with status 0, and a
\* process status of 1 comes from a fatal fault only.
C4_ExitSyscallStatusZero ==
  /\ (Executed /\ IsRType(inst, FUNC_SYSCALL) /\ regs[v0] = 10) =>
       (status # "running" /\ exitcode = 0)
  /\ (exitcode = 1) => (diag \in {"nonexistent", "unaligned"})

\* C5: a word access (the fetch at pc, the load of LW, the store of SW) goes
\* through only at an address that is a multiple of 4 and inside a region;
\* inside no region it is a fatal SegFault, inside a region but not a
\* multiple of 4 a fatal AlignFault, both with a non-zero process status and
\* without a register or a memory cell written.
C5_WordAccessContract ==
  [][ LET lwsw == Dispatching /\ Opcode(inst) \in {OP_LW, OP_SW}
          a == IF lwsw THEN EffAddr(inst) ELSE pc
          faulted == status' = "exited" /\ exitcode' = 1 /\ memory' = memory
                     /\ \A r \in 1..31 : regs'[r] = regs[r]
      IN  ((Running /\ phase = "fetch") \/ lwsw) =>
            /\ ~InSomeRegion(a, memory) => (faulted /\ diag' = "nonexistent")
            /\ (InSomeRegion(a, memory) /\ ~WordAligned(a)) =>
                 (faulted /\ diag' = "unaligned")
            /\ (InSomeRegion(a, memory) /\ WordAligned(a)) => status' = "running"
    ]_vars

\* C6: a store of v to an address that is a multiple of 4 and inside a
\* region does not fault, a fetch from that address then returns v, and the
\* fetch from every other word-aligned in-range address returns what it
\* returned before the store.
C6_StoreFetchRoundTrip ==
  [][ (Dispatching /\ Opcode(inst) = OP_SW
         /\ WordAligned(EffAddr(inst)) /\ InSomeRegion(EffAddr(inst), memory)) =>
        /\ status' = "running"
        /\ MemFault(EffAddr(inst), memory') = "none"
        /\ FetchWordFromVirtualMemory(EffAddr(inst), memory') = regs0[Rt(inst)]
        /\ \A b \in ProbeAddrs :
             (b # EffAddr(inst) /\ InSomeRegion(b, memory)) =>
               /\ MemFault(b, memory') = MemFault(b, memory)
               /\ (MemFault(b, memory) = "none" =>
                     FetchWordFromVirtualMemory(b, memory')
                       = FetchWordFromVirtualMemory(b, memory))
    ]_vars

\* C7: SB to an effective address EA inside a region raises no fault and
\* replaces byte EA & 3 of the word at EA & ~3 by the low 8 bits of regs[rt];
\* the other bytes of that word and all other words keep their value.
C7_StoreByteFrame ==
  [][ (Dispatching /\ Opcode(inst) = OP_SB
         /\ InSomeRegion(EffAddr(inst), memory)
         /\ MemFault(AlignDown(EffAddr(inst)), memory) = "none") =>
        /\ status' = "running"
        /\ \A b \in ProbeAddrs \cup {AlignDown(EffAddr(inst))} :
             MemFault(b, memory) = "none" =>
               /\ MemFault(b, memory') = "none"
               /\ FetchWordFromVirtualMemory(b, memory')
                    = IF b = AlignDown(EffAddr(inst))
                      THEN ReplaceByte(FetchWordFromVirtualMemory(b, memory),
                                       EffAddr(inst) % 4, regs0[Rt(inst)] % 256)
                      ELSE FetchWordFromVirtualMemory(b, memory)
    ]_vars

\* C8: SB of x to an in-range effective address followed by LB from the same
\* address leaves the destination of LB equal to the sign-extension of
\* x & 0xFF.  The program's third instruction is the SB, its fourth the LB
\* with the same base register and immediate.
C8_StoreByteLoadByte ==
  (/\ Opcode(Third) = OP_SB /\ Opcode(Fourth) = OP_LB
   /\ Rs(Fourth) = Rs(Third) /\ Imm(Fourth) = Imm(Third)
   /\ Rt(Fourth) # Rs(Third) /\ Rt(Fourth) # Rt(Third)
   /\ InSomeRegion(EffAddr(Third), memory)
   /\ MemFault(AlignDown(EffAddr(Third)), memory) = "none") =>
    /\ (steps = 3 => status = "running")
    /\ (steps = 4 =>
          (phase = "fetch" /\ regs[Rt(Fourth)] = SignExt8(regs[Rt(Third)] % 256)))

\* C9: a branch executed at address P leaves pc at P + 4 when it is not
\* taken and at P + (sign_extend_16(imm) << 2) modulo 2^32 when it is taken
\* (P - 4 for imm = 0xFFFF); BEQ and BNE are taken exactly on equal,
\* respectively different, registers.
C9_BranchTargets ==
  [][ LET P == pc
          target == Add32(P, 4 * SignExt16(Imm(inst)))
          eq == regs0[Rs(inst)] = regs0[Rt(inst)]
      IN  /\ (Dispatching /\ Opcode(inst) = OP_BEQ) =>
                pc' = IF eq THEN target ELSE Add32(P, 4)
          /\ (Dispatching /\ Opcode(inst) = OP_BNE) =>
                pc' = IF eq THEN Add32(P, 4) ELSE target
          /\ (Dispatching
                /\ (\/ Opcode(inst) \in {OP_BLEZ, OP_BGTZ}
                    \/ (Opcode(inst) = OP_BGEZ
                          /\ Rt(inst) \in {RT_BLTZ, RT_BGEZ, RT_BLTZAL, RT_BGEZAL}))) =>
                pc' \in {target, Add32(P, 4)}
    ]_vars

\* C10: the compare-to-zero branches decide on regs[rs] as a signed 32-bit
\* value: BLTZ is taken iff it is < 0, BGEZ iff >= 0, BLEZ iff <= 0, BGTZ
\* iff > 0 (a branch is taken when it does not leave pc at the next word).
C10_SignedCompareToZero ==
  [][ LET x == regs0[Rs(inst)]
          taken == pc' # Add32(pc, 4)
      IN  /\ (Dispatching /\ IsBswitch(inst, RT_BLTZ)) => (taken <=> x < 0)
          /\ (Dispatching /\ IsBswitch(inst, RT_BGEZ)) => (taken <=> x >= 0)
          /\ (Dispatching /\ Opcode(inst) = OP_BLEZ) => (taken <=> x <= 0)
          /\ (Dispatching /\ Opcode(inst) = OP_BGTZ) => (taken <=> x > 0)
    ]_vars

(***************************************************************************)
(* Signed arithmetic of the instruction set, on 32-bit words               *)
(***************************************************************************)
\* the two's-complement negation and the magnitude of a word
Neg32(x) == Sub32(0, x)

Mag32(x) == IF x < 0 THEN Neg32(x) ELSE x

\* the signed sum of x and y does not fit 32 bits
SignedAddOverflows(x, y) ==
  \/ (x >= 0 /\ y >= 0 /\ Add32(x, y) < 0)
  \/ (x < 0 /\ y < 0 /\ Add32(x, y) >= 0)

\* bits 32..63 of the unsigned 64-bit product, by columns of 8-bit limbs
MulHiU(x, y) ==
  LET col(k) ==
        LET I == {i \in 0..3 : k - i \in 0..3}
            term[i \in 0..3] == IF i \in I THEN ByteOf(x, i) * ByteOf(y, k - i) ELSE 0
        IN  term[0] + term[1] + term[2] + term[3]
      s0 == col(0)
      s1 == col(1) + (s0 \div 256)
      s2 == col(2) + (s1 \div 256)
      s3 == col(3) + (s2 \div 256)
      s4 == col(4) + (s3 \div 256)
      s5 == col(5) + (s4 \div 256)
      s6 == col(6) + (s5 \div 256)
      s7 == s6 \div 256
  IN  Mk(((s7 % 256) * 256) + (s6 % 256), ((s5 % 256) * 256) + (s4 % 256))

\* bits 32..63 of the signed 64-bit product
MulHiS(x, y) ==
  Sub32(Sub32(MulHiU(x, y), IF x < 0 THEN y ELSE 0), IF y < 0 THEN x ELSE 0)

\* the signed quotient truncated toward zero, and the remainder with the
\* sign of the dividend, y # 0
SDiv32(x, y) ==
  IF (x < 0) # (y < 0) THEN Neg32(UDiv32(Mag32(x), Mag32(y)))
  ELSE UDiv32(Mag32(x), Mag32(y))

SMod32(x, y) ==
  IF x < 0 THEN Neg32(UMod32(Mag32(x), Mag32(y))) ELSE UMod32(Mag32(x), Mag32(y))

(***************************************************************************)
(* Guest strings and region extents                                        *)
(***************************************************************************)
\* the longest string print_string may have to walk
MaxString == 16

\* the bytes of guest memory from address a up to the first NUL, read a byte
\* at a time out of the word that holds it; fault when the walk comes to an
\* address the word access rejects
RECURSIVE GuestString(_, _, _)
GuestString(a, mem, n) ==
  IF n = 0 \/ MemFault(AlignDown(a), mem) # "none"
  THEN [fault |-> TRUE, bytes |-> <<>>]
  ELSE LET b == ByteOf(FetchWordFromVirtualMemory(AlignDown(a), mem), a % 4)
           rest == GuestString(Add32(a, 1), mem, n - 1)
       IN  IF b = 0 THEN [fault |-> FALSE, bytes |-> <<>>]
           ELSE [fault |-> rest.fault, bytes |-> <<b>> \o rest.bytes]

\* base address and length of each region, in list order
Extents(mem) == [i \in 1..Len(mem) |-> <<mem[i].vaddr, mem[i].len>>]

(***************************************************************************)
(* C11..C20                                                                *)
(***************************************************************************)

\* C11: J and JAL executed at address P leave pc at
\* (P & 0xF0000000) | (addr << 2), which is P & 0xF0000000 for addr = 0, and
\* the run goes on; J leaves every register as it was (register 0 being the
\* constant 0), JAL sets regs[31] to P + 8 and leaves the others; JR ra
\* copies regs[31] to pc, so that after a JAL it resumes at P + 8.
C11_JumpAndLink ==
  [][ LET P == pc
          target == Or32(And32(P, Mk(61440, 0)), Shl32(Addr(inst), 2))
      IN  /\ (Dispatching /\ Opcode(inst) \in {OP_J, OP_JAL}) =>
                /\ pc' = target
                /\ (Addr(inst) = 0 => pc' = And32(P, Mk(61440, 0)))
                /\ status' = "running"
                /\ regs'[zero] = 0
          /\ (Dispatching /\ Opcode(inst) = OP_J) =>
                \A r \in 1..31 : regs'[r] = regs[r]
          /\ (Dispatching /\ Opcode(inst) = OP_JAL) =>
                /\ regs'[ra] = Add32(P, 8)
                /\ \A r \in 1..30 : regs'[r] = regs[r]
          /\ (Dispatching /\ IsRType(inst, FUNC_JR) /\ Rs(inst) = ra) =>
                pc' = regs[ra]
    ]_vars

\* the JAL at the third word has jumped to the fourth, whose JR ra has
\* resumed two words after the JAL
C11_Witness_Resumed ==
  /\ Opcode(Third) = OP_JAL
  /\ IsRType(inst, FUNC_JR) /\ Rs(inst) = ra
  /\ phase = "fetch"
  /\ steps = 4
  /\ pc = Add32(Add32(Entry, 8), 8)
  /\ regs[ra] = pc

\* a J with addr = 0 has been executed at 0x10000000 and has landed there
C11_Witness_Segment ==
  /\ inst = JType(OP_J, 0)
  /\ phase = "fetch"
  /\ status = "running"
  /\ steps >= 5
  /\ pc = Mk(4096, 0)

\* C12: ADD, and ADDI with its sign-extended immediate, whose signed 32-bit
\* sum overflows end the simulator with the fatal Overflow fault, process
\* status 1, and do not write the destination register; ADDU writes the sum
\* modulo 2^32 (0x80000000 for 0x7FFFFFFF + 1) and the run goes on.
C12_AddOverflowTraps ==
  [][ LET addi == Dispatching /\ Opcode(inst) = OP_ADDI
          add == Dispatching /\ IsRType(inst, FUNC_ADD)
          addu == Dispatching /\ IsRType(inst, FUNC_ADDU)
          x == regs0[Rs(inst)]
          y == IF addi THEN SignExt16(Imm(inst)) ELSE regs0[Rt(inst)]
          dest == IF addi THEN Rt(inst) ELSE Rd(inst)
      IN  /\ ((addi \/ add) /\ SignedAddOverflows(x, y)) =>
                /\ status' = "exited" /\ exitcode' = 1 /\ diag' = "overflow"
                /\ regs'[dest] = regs0[dest]
          /\ addu =>
                /\ status' = "running"
                /\ (dest # zero => regs'[dest] = Add32(x, y))
    ]_vars

\* C13: DIV and DIVU with regs[rt] = 0 end the simulation in the fatal
\* DivByZero error state, with its own diagnostic, and leave HI, LO and pc
\* as they were.
C13_DivideByZeroIsFatal ==
  [][ (Dispatching /\ (IsRType(inst, FUNC_DIV) \/ IsRType(inst, FUNC_DIVU))
         /\ regs0[Rt(inst)] = 0) =>
        /\ status' = "exited" /\ exitcode' # 0 /\ diag' = "divbyzero"
        /\ HI' = HI /\ LO' = LO /\ pc' = pc
    ]_vars

\* C14: MULT leaves the high 32 bits of the signed 64-bit product of
\* regs[rs] and regs[rt] in HI and the low 32 bits in LO, MULTU those of the
\* unsigned product; MFHI copies HI to regs[rd].
C14_MultiplyFillsHiLo ==
  [][ LET x == regs0[Rs(inst)]
          y == regs0[Rt(inst)]
      IN  /\ (Dispatching /\ IsRType(inst, FUNC_MULT)) =>
                (HI' = MulHiS(x, y) /\ LO' = Mul32(x, y))
          /\ (Dispatching /\ IsRType(inst, FUNC_MULTU)) =>
                (HI' = MulHiU(x, y) /\ LO' = Mul32(x, y))
          /\ (Dispatching /\ IsRType(inst, FUNC_MFHI) /\ Rd(inst) # zero) =>
                regs'[Rd(inst)] = HI
    ]_vars

\* C15: with regs[rt] # 0, DIV leaves in LO the signed quotient truncated
\* toward zero and in HI the remainder with the sign of the dividend
\* (-7 / 2: LO = -3, HI = -1); DIVU leaves the unsigned quotient and
\* remainder.
C15_SignedDivide ==
  [][ LET x == regs0[Rs(inst)]
          y == regs0[Rt(inst)]
      IN  /\ (Dispatching /\ IsRType(inst, FUNC_DIV) /\ y # 0) =>
                (LO' = SDiv32(x, y) /\ HI' = SMod32(x, y))
          /\ (Dispatching /\ IsRType(inst, FUNC_DIVU) /\ y # 0) =>
                (LO' = UDiv32(x, y) /\ HI' = UMod32(x, y))
    ]_vars

\* C16: SLT writes 1 to rd iff regs[rs] < regs[rt] as signed values and 0
\* otherwise; SLTU writes 1 iff regs[rs] < regs[rt] as unsigned values and 0
\* otherwise.
C16_SetOnLessThan ==
  [][ LET x == regs0[Rs(inst)]
          y == regs0[Rt(inst)]
      IN  /\ (Dispatching /\ IsRType(inst, FUNC_SLT) /\ Rd(inst) # zero) =>
                regs'[Rd(inst)] = IF x < y THEN 1 ELSE 0
          /\ (Dispatching /\ IsRType(inst, FUNC_SLTU) /\ Rd(inst) # zero) =>
                regs'[Rd(inst)] = IF ULt(x, y) THEN 1 ELSE 0
    ]_vars

\* C17: LW and SW access the word at regs[rs] + sign_extend_16(imm) modulo
\* 2^32 (imm = 0xFFFC: the word 4 below regs[rs]): where the word access at
\* that address faults, the instruction ends the run with that fault, and
\* otherwise LW writes the word found there to regs[rt], SW stores regs[rt]
\* there, and the run goes on.
C17_LoadStoreSignedOffset ==
  [][ LET ea == Add32(regs0[Rs(inst)], SignExt16(Imm(inst)))
          fault == MemFault(ea, memory)
      IN  /\ (Dispatching /\ Opcode(inst) \in {OP_LW, OP_SW} /\ fault # "none") =>
                (status' = "exited" /\ diag' = fault)
          /\ (Dispatching /\ Opcode(inst) = OP_LW /\ fault = "none") =>
                /\ status' = "running"
                /\ (Rt(inst) # zero =>
                      regs'[Rt(inst)] = FetchWordFromVirtualMemory(ea, memory))
          /\ (Dispatching /\ Opcode(inst) = OP_SW /\ fault = "none") =>
                /\ status' = "running"
                /\ memory' = StoreWordToVirtualMemory(ea, regs0[Rt(inst)], memory)
    ]_vars

\* C18: SYSCALL with regs[v0] = 4 prints exactly the bytes of guest memory
\* from address regs[a0] up to the first NUL, and ends the run with the
\* SegFault when that walk leaves the regions before a NUL.
C18_PrintStringReadsGuestMemory ==
  [][ (Dispatching /\ IsRType(inst, FUNC_SYSCALL) /\ regs0[v0] = 4) =>
        LET g == GuestString(regs0[a0], memory, MaxString)
        IN  IF g.fault
            THEN status' = "exited" /\ exitcode' = 1 /\ diag' = "nonexistent"
            ELSE /\ status' = "running"
                 /\ Len(stdout') = Len(stdout) + 1
                 /\ stdout'[Len(stdout')][1] = "guestbytes"
                 /\ stdout'[Len(stdout')][2] = g.bytes
    ]_vars

\* C19: when the run loop starts, pc is the ELF entry point, regs[29] is
\* 0xC0007FFC inside the zero-filled stack region [0xC0000000, 0xC0008000),
\* and every other general register, HI and LO are 0.
C19_InitialState ==
  (steps = 0 /\ phase = "fetch") =>
    /\ pc = Entry
    /\ regs[REGID_SP] = Mk(49152, 32764)
    /\ \E i \in 1..Len(memory) :
         /\ memory[i].vaddr = Mk(49152, 0) /\ memory[i].len = 32768
         /\ DOMAIN memory[i].data = {}
    /\ \A r \in (0..31) \ {REGID_SP} : regs[r] = 0
    /\ HI = 0
    /\ LO = 0

\* C20: no instruction and no system call creates, removes or resizes a
\* region: across every step the list of regions has the same length and
\* each region the same base address and length, those of load time.
C20_RegionsFixed ==
  [][Extents(memory') = Extents(memory)]_vars

\* SW has stored regs[t1] = 0x11 into the first word of the data segment
C20_Witness ==
  /\ Opcode(inst) = OP_SW
  /\ phase = "fetch"
  /\ status = "running"
  /\ steps >= 3
  /\ memory[2].vaddr = DataBase
  /\ Cell(memory[2].data, 0) = 17

(***************************************************************************)
(* C21..C28                                                                *)
(***************************************************************************)
\* inst is about to run right after the word last.word, which ran at the
\* address before it
Follows == Dispatching /\ steps >= 1 /\ pc = Add32(last.pc, 4)

\* LUI r, imm has just run and ORI r, r, imm2 is about to
LuiThenOri ==
  /\ Follows
  /\ Opcode(last.word) = OP_LUI
  /\ Opcode(inst) = OP_ORI
  /\ Rs(inst) = Rt(last.word)
  /\ Rt(inst) = Rt(last.word)

\* C21 as claimed: LUI rt, imm immediately followed by ORI rt, rt, imm2
\* leaves regs[rt] = (imm << 16) | imm2, for every register rt, register 0
\* included.
C21_LuiOriAnyRegister ==
  [][ LuiThenOri => regs'[Rt(inst)] = Mk(Imm(last.word), Imm(inst)) ]_vars

\* C21: LUI rt, imm immediately followed by ORI rt, rt, imm2 leaves
\* regs[rt] = (imm << 16) | imm2 for every rt other than register 0, and
\* the run goes on at the next word.
C21_LuiOri ==
  [][ (LuiThenOri /\ Rt(inst) # zero) =>
        /\ regs'[Rt(inst)] = Mk(Imm(last.word), Imm(inst))
        /\ pc' = Add32(pc, 4)
        /\ status' = "running"
    ]_vars

\* LUI t2, 0x8000; ORI t2, t2, 0x8000 has left 0x80008000 in t2
C21_Witness ==
  /\ phase = "fetch"
  /\ inst = IType(OP_ORI, t2, t2, 32768)
  /\ last.word = inst
  /\ steps = 4
  /\ regs[t2] = Mk(32768, 32768)

\* ADDU rd, rs, rt has just run and SUBU rt', rd, rs is about to
AdduThenSubu ==
  /\ Follows
  /\ IsRType(last.word, FUNC_ADDU)
  /\ IsRType(inst, FUNC_SUBU)
  /\ Rs(inst) = Rd(last.word)
  /\ Rt(inst) = Rs(last.word)

\* the value register r held when last.word started
Before(r) == IF r = zero THEN 0 ELSE last.regs[r]

\* C22 as claimed: ADDU rd, rs, rt immediately followed by SUBU rt', rd, rs
\* leaves in regs[rt'] the value regs[rt] held before the ADDU, whatever
\* registers the two instructions name.
C22_AdduSubuAnyRegisters ==
  [][ AdduThenSubu => regs'[Rd(inst)] = Before(Rt(last.word)) ]_vars

\* C22: ADDU rd, rs, rt immediately followed by SUBU rt', rd, rs leaves in
\* regs[rt'] the value regs[rt] held before the ADDU, for all values of
\* regs[rs] and regs[rt], when rd is neither register 0 nor rs and rt' is
\* not register 0.
C22_AdduSubu ==
  [][ (AdduThenSubu /\ Rd(last.word) \notin {zero, Rs(last.word)} /\ Rd(inst) # zero) =>
        regs'[Rd(inst)] = Before(Rt(last.word))
    ]_vars

\* 0xFFFF0000 + 0x00010000 has wrapped to 0 in t2 and the SUBU has brought
\* 0x00010000 back into t1
C22_Witness ==
  /\ phase = "fetch"
  /\ inst = RType(t2, t0, t1, 0, FUNC_SUBU)
  /\ last.word = inst
  /\ last.regs[t2] = 0
  /\ steps = 4
  /\ regs[t1] = Mk(1, 0)

\* C23: SYSCALL with regs[v0] outside {1, 4, 5, 8, 10} is ignored: no error
\* and no diagnostic, nothing printed, every register (register 0 being the
\* constant 0), HI, LO and memory as before, pc advanced by 4, and the run
\* loop goes on with the next instruction.
C23_UnknownSyscallIgnored ==
  [][ (Dispatching /\ IsRType(inst, FUNC_SYSCALL) /\ regs0[v0] \notin {1, 4, 5, 8, 10}) =>
        /\ status' = "running" /\ phase' = "fetch"
        /\ exitcode' = exitcode /\ diag' = diag /\ stdout' = stdout
        /\ \A r \in 1..31 : regs'[r] = regs[r]
        /\ regs'[zero] = 0
        /\ HI' = HI /\ LO' = LO /\ memory' = memory
        /\ pc' = Add32(pc, 4)
    ]_vars

\* SYSCALL with regs[v0] = 11 has been executed as the fourth instruction
C23_Witness ==
  /\ phase = "fetch"
  /\ status = "running"
  /\ IsRType(inst, FUNC_SYSCALL)
  /\ last.word = inst
  /\ regs[v0] = 11
  /\ steps = 4
  /\ pc = Add32(Entry, 16)

\* the signed difference x - y does not fit 32 bits
SignedSubOverflows(x, y) ==
  \/ (x >= 0 /\ y < 0 /\ Sub32(x, y) < 0)
  \/ (x < 0 /\ y >= 0 /\ Sub32(x, y) >= 0)

\* x >> n with the sign bit replicated, 0 <= n <= 31
Sra32(x, n) ==
  IF n = 0 THEN x
  ELSE IF n = 31 THEN (IF x < 0 THEN -1 ELSE 0)
  ELSE IF x >= 0 THEN x \div (2 ^ n)
  ELSE -1 - ((-1 - x) \div (2 ^ n))

\* C24: BLTZAL and BGEZAL executed at address P write P + 8 to regs[31],
\* and are taken under the signed condition of BLTZ and BGEZ: BLTZAL iff
\* regs[rs] < 0 and BGEZAL iff regs[rs] >= 0 as signed values (a branch is
\* taken when it does not leave pc at the next word).
C24_LinkBranches ==
  [][ LET x == regs0[Rs(inst)]
          taken == pc' # Add32(pc, 4)
      IN  /\ (Dispatching /\ IsBswitch(inst, RT_BLTZAL)) =>
                (regs'[ra] = Add32(pc, 8) /\ (taken <=> x < 0))
          /\ (Dispatching /\ IsBswitch(inst, RT_BGEZAL)) =>
                (regs'[ra] = Add32(pc, 8) /\ (taken <=> x >= 0))
    ]_vars

\* C25: SLLV (function code 0x04), SRLV (0x06) and SRAV (0x07) are executed:
\* each writes regs[rt] shifted by regs[rs] & 31 to rd (SLLV to the left,
\* SRLV to the right with zeros, SRAV to the right with copies of the sign
\* bit), advances pc by 4, and the run goes on.
C25_VariableShifts ==
  [][ LET x == regs0[Rt(inst)]
          n == Lo16(regs0[Rs(inst)]) % 32
          shift(v) == /\ status' = "running"
                      /\ pc' = Add32(pc, 4)
                      /\ (Rd(inst) # zero => regs'[Rd(inst)] = v)
      IN  /\ (Dispatching /\ IsRType(inst, FUNC_SLLV)) => shift(Shl32(x, n))
          /\ (Dispatching /\ IsRType(inst, FUNC_SRLV)) => shift(Shr32(x, n))
          /\ (Dispatching /\ IsRType(inst, 7)) => shift(Sra32(x, n))
    ]_vars

\* C26: SUB whose signed 32-bit difference overflows (0x80000000 - 1) ends
\* the simulator with the fatal Overflow fault, process status 1; SUBU
\* writes the difference modulo 2^32 and the run goes on.
C26_SubOverflowTraps ==
  [][ LET x == regs0[Rs(inst)]
          y == regs0[Rt(inst)]
      IN  /\ (Dispatching /\ IsRType(inst, FUNC_SUB) /\ SignedSubOverflows(x, y)) =>
                (status' = "exited" /\ exitcode' = 1 /\ diag' = "overflow")
          /\ (Dispatching /\ IsRType(inst, FUNC_SUBU)) =>
                /\ status' = "running"
                /\ (Rd(inst) # zero => regs'[Rd(inst)] = Sub32(x, y))
    ]_vars

\* a word of primary opcode 0x01 whose rt field selects no branch
UnknownBswitch(w) ==
  Opcode(w) = OP_BGEZ /\ Rt(w) \notin {RT_BLTZ, RT_BGEZ, RT_BLTZAL, RT_BGEZAL}

C28_RegZeroReadsZero ==
  [][ LET src(r) == IF r = zero THEN 0 ELSE regs[r]
          x == src(Rs(inst))
          y == src(Rt(inst))
          zs == Rs(inst) = zero \/ Rt(inst) = zero
          rd(v) == Rd(inst) # zero => regs'[Rd(inst)] = v
          rt(v) == Rt(inst) # zero => regs'[Rt(inst)] = v
          ea == Add32(x, Imm(inst))
          taken == pc' # Add32(pc, 4)
      IN  Dispatching =>
            /\ (IsRType(inst, FUNC_JR) /\ Rs(inst) = zero) => pc' = 0
            /\ (Opcode(inst) = OP_SW /\ zs /\ MemFault(ea, memory) = "none") =>
                  memory' = StoreWordToVirtualMemory(ea, y, memory)
            /\ (Opcode(inst) \in {OP_LW, OP_SW} /\ zs /\ MemFault(ea, memory) # "none") =>
                  (status' = "exited" /\ diag' = MemFault(ea, memory))
            /\ (Opcode(inst) = OP_LW /\ zs /\ MemFault(ea, memory) = "none") =>
                  rt(FetchWordFromVirtualMemory(ea, memory))
            /\ (Opcode(inst) \in {OP_ADDI, OP_ADDIU} /\ Rs(inst) = zero) => rt(Imm(inst))
            /\ (Opcode(inst) \in {OP_ORI, OP_XORI} /\ Rs(inst) = zero) => rt(Imm(inst))
            /\ (Opcode(inst) = OP_ANDI /\ Rs(inst) = zero) => rt(0)
            /\ (IsRType(inst, FUNC_ADDU) /\ zs) => rd(Add32(x, y))
            /\ (IsRType(inst, FUNC_SUBU) /\ zs) => rd(Sub32(x, y))
            /\ (IsRType(inst, FUNC_OR) /\ zs) => rd(IF x = 0 THEN y ELSE x)
            /\ (IsRType(inst, FUNC_XOR) /\ zs) => rd(IF x = 0 THEN y ELSE x)
            /\ (IsRType(inst, FUNC_AND) /\ zs) => rd(0)
            /\ (Opcode(inst) = OP_BEQ /\ zs) => (taken <=> x = y)
            /\ (Opcode(inst) = OP_BNE /\ zs) => (taken <=> x # y)
            /\ (Opcode(inst) = OP_BLEZ /\ Rs(inst) = zero) => taken
            /\ (Opcode(inst) = OP_BGTZ /\ Rs(inst) = zero) => ~taken
            /\ (IsBswitch(inst, RT_BGEZ) /\ Rs(inst) = zero) => taken
            /\ (IsBswitch(inst, RT_BLTZ) /\ Rs(inst) = zero) => ~taken
    ]_vars

\* JR $0 has jumped to 0 although regs[0] was not 0 when it started
C28_Witness ==
  /\ phase = "fetch"
  /\ inst = RType(zero, zero, zero, 0, FUNC_JR)
  /\ last.word = inst
  /\ last.regs[zero] # 0
  /\ pc = 0

====
